---- MODULE Spec2Model ----
(***************************************************************************)
(* Model of objdeps.py: the --make-db run of _main (argument filtering,    *)
(* symbol extraction, the two derivation passes, the shelve write) and the *)
(* library functions _init_dependencies, _init_clients and                 *)
(* _find_dependencies_intersection.                                        *)
(***************************************************************************)
EXTENDS Naturals, Sequences, FiniteSets

\* Longest list of libraries on the command line / in a registry.
MaxLibs == 3
\* How many times the two derivation passes are run on one registry in SpecRerun.
MaxPasses == 2

\* Symbol names that nm can print.  Both passes look at one pair of libraries
\* at a time and only ask whether two symbol sets meet, so one name gives
\* every outcome of that test.
Symbols == {"f"}
\* Base filenames of the archives on disk.
Bases == {"a", "b", "c"}
\* The archives that can be named: two of them share the base filename "a".
Paths ==
    { [dir |-> "d1", base |-> "a"], [dir |-> "d2", base |-> "a"],
      [dir |-> "d1", base |-> "b"], [dir |-> "d1", base |-> "c"] }

\* path.basename
basename(p) == p.base

\* What the two shell pipelines of _parse_lib print for one archive: the
\* filtered defined and undefined symbol lines.  When nm fails (missing file,
\* non-zero exit) both pipelines print nothing; _run never looks at the exit
\* status, so only the model's "ok" field remembers the failure.
NmFailed == [ok |-> FALSE, defined |-> {}, undefined |-> {}]
NmOutputs ==
    [ok : {TRUE}, defined : SUBSET Symbols, undefined : SUBSET Symbols]
        \cup {NmFailed}

\* _Library, as built by _make_library: the relation sets start empty.
make_library(name, defined, undefined) ==
    [name |-> name, defined |-> defined, undefined |-> undefined,
     dependencies |-> {}, clients |-> {}]

\* _parse_lib under a given state of the disk.
parse_lib(fs, p) ==
    make_library(basename(p), fs[p].defined, fs[p].undefined)

\* The list comprehension of line 118.
RECURSIVE exclude_filter(_, _)
exclude_filter(ls, excl) ==
    IF ls = << >> THEN << >>
    ELSE IF basename(Head(ls)) \notin excl
         THEN <<Head(ls)>> \o exclude_filter(Tail(ls), excl)
         ELSE exclude_filter(Tail(ls), excl)

\* Line 118 testing path.dirname(l) instead of path.basename(l).
filter_libs_by_dirname(ls, excl) ==
    IF excl # {} THEN SelectSeq(ls, LAMBDA p : p.dir \notin excl) ELSE ls

\* Lines 117-118: the filter is applied only to a non-empty exclusion list.
filter_libs(ls, excl) ==
    IF excl # {} THEN exclude_filter(ls, excl) ELSE ls

\* _update_dependencies without the name test of lines 44-45.
update_dependencies_step_noskip(ls, t, n) ==
    IF ls[t].undefined \cap ls[n].defined # {}
    THEN [ls EXCEPT ![t].dependencies = @ \cup {ls[n].name}]
    ELSE ls

\* _update_dependencies with the two libraries' roles swapped in line 47.
update_dependencies_step_swapped(ls, t, n) ==
    IF ls[t].name = ls[n].name THEN ls
    ELSE IF ls[n].undefined \cap ls[t].defined # {}
         THEN [ls EXCEPT ![t].dependencies = @ \cup {ls[n].name}]
         ELSE ls

\* _update_dependencies also turning a recorded client into a dependency.
update_dependencies_step_stale(ls, t, n) ==
    IF ls[t].name = ls[n].name THEN ls
    ELSE IF \/ ls[t].undefined \cap ls[n].defined # {}
            \/ ls[n].name \in ls[t].clients
         THEN [ls EXCEPT ![t].dependencies = @ \cup {ls[n].name}]
         ELSE ls

\* One iteration of the loop of _update_dependencies(libs[t], libs), at lib
\* libs[n]: the registry after it.
update_dependencies_step(ls, t, n) ==
    IF ls[t].name = ls[n].name THEN ls
    ELSE IF ls[t].undefined \cap ls[n].defined # {}
         THEN [ls EXCEPT ![t].dependencies = @ \cup {ls[n].name}]
         ELSE ls

\* _update_clients reading the target's dependencies in line 61.
update_clients_step_reversed(ls, t, n) ==
    IF ls[t].name = ls[n].name THEN ls
    ELSE IF ls[n].name \in ls[t].dependencies
         THEN [ls EXCEPT ![t].clients = @ \cup {ls[n].name}]
         ELSE ls

\* One iteration of the loop of _update_clients(libs[t], libs), at lib
\* libs[n]: the registry after it.
update_clients_step(ls, t, n) ==
    IF ls[t].name = ls[n].name THEN ls
    ELSE IF ls[t].name \in ls[n].dependencies
         THEN [ls EXCEPT ![t].clients = @ \cup {ls[n].name}]
         ELSE ls

\* _main writing the shelve file before the derivation passes.
next_pc_store_first(p) ==
    CASE p = "filter" -> "parse"
      [] p = "parse" -> "store"
      [] p = "store" -> "deps"
      [] p = "deps" -> "clients"
      [] p = "clients" -> "done"
      [] OTHER -> p

\* The order of the statements of the --make-db branch of _main.
next_pc(p) ==
    CASE p = "filter" -> "parse"
      [] p = "parse" -> "deps"
      [] p = "deps" -> "clients"
      [] p = "clients" -> "store"
      [] p = "store" -> "done"
      [] OTHER -> p

\* One iteration of the loop of _find_dependencies_intersection(tgt, ls), at
\* lib ls[n].  cnt is clients_count and acc is deps_intersection before it.
\* Line 88 binds deps_intersection to the client's own set object: al is the
\* index of the library whose dependencies set deps_intersection is (0 when it
\* is a set of its own).  set.intersection (line 90) builds a new set and
\* changes neither operand, so the registry comes back as it was.
find_dependencies_intersection_step(ls, tgt, n, cnt, acc, al) ==
    IF ls[n].name \in tgt.clients
    THEN IF acc = {}
         THEN [libs |-> ls, clients_count |-> cnt + 1,
               deps_intersection |-> ls[n].dependencies, alias |-> n]
         ELSE [libs |-> ls, clients_count |-> cnt + 1,
               deps_intersection |-> acc \cap ls[n].dependencies, alias |-> 0]
    ELSE [libs |-> ls, clients_count |-> cnt,
          deps_intersection |-> acc, alias |-> al]

VARIABLES
    args_libs,          \* the list of paths of lines 109-115
    args_exclude_libs,  \* --exclude-libs, as a set of base filenames
    disk,               \* what nm prints for each archive
    paths,              \* libs after line 118: the paths to parse
    libs,               \* the list of _Library records
    pc,                 \* position in _main, or in a library call
    i,                  \* index of the outer loop (target)
    j,                  \* index of the inner loop (lib)
    data,               \* the shelve file: whether it holds 'libs', and data['libs']
    writes,             \* how many times data['libs'] has been assigned
    pass,               \* which run of the two derivation passes this is
    snap,               \* the registry as the previous run of the passes left it
    target,             \* argument of _find_dependencies_intersection
    k,                  \* index of its loop
    clients_count,      \* its local clients_count
    deps_intersection,  \* its local deps_intersection
    alias,              \* whose dependencies set deps_intersection is, or 0
    result              \* the tuple it returned

mainVars == <<args_libs, args_exclude_libs, disk, paths, data, writes>>
loopVars == <<i, j>>
passVars == <<pass, snap>>
queryVars == <<target, k, clients_count, deps_intersection, alias, result>>
vars == <<mainVars, libs, pc, loopVars, passVars, queryVars>>

NoData == [written |-> FALSE, libs |-> << >>]
NoTarget == [name |-> "", clients |-> {}]
NoResult == <<0, {}>>

PathLists == UNION { [1..n -> Paths] : n \in 1..MaxLibs }
ExcludeChoices == {{}} \cup { {b} : b \in Bases }

Range(s) == { s[n] : n \in DOMAIN s }

\* Nothing has been called yet.
QueryIdle ==
    /\ target = NoTarget
    /\ k = 1
    /\ clients_count = 0
    /\ deps_intersection = {}
    /\ alias = 0
    /\ result = NoResult

\* The state when _main reaches line 117 with --make-db.  Archives that are
\* not going to be parsed are given no content.
Init ==
    /\ args_libs \in PathLists
    /\ args_exclude_libs \in ExcludeChoices
    /\ LET used == Range(filter_libs(args_libs, args_exclude_libs))
       IN \E f \in [used -> NmOutputs] :
             disk = [p \in Paths |-> IF p \in used THEN f[p] ELSE NmFailed]
    /\ paths = << >>
    /\ libs = << >>
    /\ pc = "filter"
    /\ i = 1
    /\ j = 1
    /\ data = NoData
    /\ writes = 0
    /\ pass = 1
    /\ snap = << >>
    /\ QueryIdle

\* Lines 117-120.
Filter ==
    /\ pc = "filter"
    /\ paths' = filter_libs(args_libs, args_exclude_libs)
    /\ pc' = next_pc(pc)
    /\ UNCHANGED <<args_libs, args_exclude_libs, disk, data, writes>>
    /\ UNCHANGED <<libs, loopVars, passVars, queryVars>>

\* Line 122, one element of the list comprehension.
ParseLib ==
    /\ pc = "parse"
    /\ Len(libs) < Len(paths)
    /\ libs' = Append(libs, parse_lib(disk, paths[Len(libs) + 1]))
    /\ UNCHANGED <<mainVars, pc, loopVars, passVars, queryVars>>

\* Line 122 done: the next statement is entered.
ParseDone ==
    /\ pc = "parse"
    /\ Len(libs) = Len(paths)
    /\ pc' = next_pc(pc)
    /\ i' = 1
    /\ j' = 1
    /\ UNCHANGED <<mainVars, libs, passVars, queryVars>>

\* Lines 43-48 inside lines 52-53: one iteration of the inner loop.
UpdateDependencies ==
    /\ pc = "deps"
    /\ i <= Len(libs)
    /\ libs' = update_dependencies_step(libs, i, j)
    /\ IF j < Len(libs) THEN i' = i /\ j' = j + 1 ELSE i' = i + 1 /\ j' = 1
    /\ UNCHANGED <<mainVars, pc, passVars, queryVars>>

\* _init_dependencies returns: the next statement is entered.
InitDependenciesDone ==
    /\ pc = "deps"
    /\ i > Len(libs)
    /\ pc' = next_pc(pc)
    /\ i' = 1
    /\ j' = 1
    /\ UNCHANGED <<mainVars, libs, passVars, queryVars>>

\* Lines 57-62 inside lines 66-67: one iteration of the inner loop.
UpdateClients ==
    /\ pc = "clients"
    /\ i <= Len(libs)
    /\ libs' = update_clients_step(libs, i, j)
    /\ IF j < Len(libs) THEN i' = i /\ j' = j + 1 ELSE i' = i + 1 /\ j' = 1
    /\ UNCHANGED <<mainVars, pc, passVars, queryVars>>

\* _init_clients returns: the next statement is entered.
InitClientsDone ==
    /\ pc = "clients"
    /\ i > Len(libs)
    /\ pc' = next_pc(pc)
    /\ i' = 1
    /\ j' = 1
    /\ UNCHANGED <<mainVars, libs, passVars, queryVars>>

\* Lines 125-126.
Store ==
    /\ pc = "store"
    /\ data' = [written |-> TRUE, libs |-> libs]
    /\ writes' = writes + 1
    /\ pc' = next_pc(pc)
    /\ UNCHANGED <<args_libs, args_exclude_libs, disk, paths>>
    /\ UNCHANGED <<libs, loopVars, passVars, queryVars>>

\* The --make-db run of _main.
Next ==
    \/ Filter
    \/ ParseLib
    \/ ParseDone
    \/ UpdateDependencies
    \/ InitDependenciesDone
    \/ UpdateClients
    \/ InitClientsDone
    \/ Store

Spec == Init /\ [][Next]_vars

(***************************************************************************)
(* The library functions called by a client of the module on a registry    *)
(* that the two passes have resolved: the passes run once more, and        *)
(* _find_dependencies_intersection is called on one of its libraries.      *)
(***************************************************************************)

\* _init_dependencies(libs); _init_clients(libs) called again on the same list.
Rerun ==
    /\ pc = "store"
    /\ pass < MaxPasses
    /\ pass' = pass + 1
    /\ snap' = libs
    /\ pc' = "deps"
    /\ UNCHANGED <<mainVars, libs, loopVars, queryVars>>

\* Lines 82-84: _find_dependencies_intersection(libs[t], libs) is entered.
FindStart ==
    /\ pc = "store"
    /\ \E t \in DOMAIN libs : target' = libs[t]
    /\ k' = 1
    /\ clients_count' = 0
    /\ deps_intersection' = {}
    /\ alias' = 0
    /\ pc' = "find"
    /\ UNCHANGED <<mainVars, libs, loopVars, passVars, result>>

\* Lines 85-91: one iteration of the loop.
FindStep ==
    /\ pc = "find"
    /\ k <= Len(libs)
    /\ LET r == find_dependencies_intersection_step(
                    libs, target, k, clients_count, deps_intersection, alias)
       IN /\ libs' = r.libs
          /\ clients_count' = r.clients_count
          /\ deps_intersection' = r.deps_intersection
          /\ alias' = r.alias
    /\ k' = k + 1
    /\ UNCHANGED <<mainVars, pc, loopVars, passVars, target, result>>

\* Line 92.
FindReturn ==
    /\ pc = "find"
    /\ k > Len(libs)
    /\ result' = <<clients_count, deps_intersection>>
    /\ pc' = "found"
    /\ UNCHANGED <<mainVars, libs, loopVars, passVars>>
    /\ UNCHANGED <<target, k, clients_count, deps_intersection, alias>>

\* The passes are run again on the resolved registry.
NextRerun ==
    \/ Next
    \/ Rerun

SpecRerun == Init /\ [][NextRerun]_vars

\* _find_dependencies_intersection is called on the resolved registry.
NextResolvedFind ==
    \/ Next
    \/ FindStart
    \/ FindStep
    \/ FindReturn

SpecResolvedFind == Init /\ [][NextResolvedFind]_vars

(***************************************************************************)
(* _find_dependencies_intersection as a function of its arguments: any     *)
(* target and any list of libraries, whatever their relation sets hold.    *)
(***************************************************************************)

\* Libraries as the function reads them: name and dependencies.
AnyLibs ==
    UNION { [1..n -> [name : Bases, defined : {{}}, undefined : {{}},
                      dependencies : SUBSET Bases, clients : {{}}]]
            : n \in 1..MaxLibs }
\* Targets as the function reads them: clients.
AnyTargets == [name : {"a"}, clients : SUBSET Bases]

\* The call is entered with arbitrary arguments.
InitFind ==
    /\ args_libs = << >>
    /\ args_exclude_libs = {}
    /\ disk = [p \in Paths |-> NmFailed]
    /\ paths = << >>
    /\ libs \in AnyLibs
    /\ pc = "find"
    /\ i = 1
    /\ j = 1
    /\ data = NoData
    /\ writes = 0
    /\ pass = 1
    /\ snap = << >>
    /\ target \in AnyTargets
    /\ k = 1
    /\ clients_count = 0
    /\ deps_intersection = {}
    /\ alias = 0
    /\ result = NoResult

NextFind ==
    \/ FindStep
    \/ FindReturn

SpecFind == InitFind /\ [][NextFind]_vars

(***************************************************************************)
(* Properties.                                                             *)
(***************************************************************************)

\* The dependency edges that the symbol sets of registry ls call for at ls[n].
ExpectedDependencies(ls, n) ==
    { ls[m].name : m \in { m \in DOMAIN ls :
                             /\ ls[m].name # ls[n].name
                             /\ ls[n].undefined \cap ls[m].defined # {} } }

\* The inverse of the dependencies relation of registry ls at ls[n].
ExpectedClients(ls, n) ==
    { ls[m].name : m \in { m \in DOMAIN ls :
                             /\ ls[m].name # ls[n].name
                             /\ ls[n].name \in ls[m].dependencies } }

UniqueNames(ls) ==
    \A m, n \in DOMAIN ls : m # n => ls[m].name # ls[n].name

SymbolsOf(ls) == [n \in DOMAIN ls |-> <<ls[n].name, ls[n].defined, ls[n].undefined>>]
DependenciesOf(ls) == [n \in DOMAIN ls |-> ls[n].dependencies]
ClientsOf(ls) == [n \in DOMAIN ls |-> ls[n].clients]

\* Both passes of _main have finished.
Resolved == pc \in {"store", "done"}

\* C1: after _init_dependencies and _init_clients, for all libraries A and B
\* with different names, B.name is in A.dependencies iff A.name is in B.clients.
C1_DependenciesIffClients ==
    Resolved =>
        \A a, b \in DOMAIN libs :
            libs[a].name # libs[b].name =>
                (libs[b].name \in libs[a].dependencies
                    <=> libs[a].name \in libs[b].clients)

\* C2: in every state during and after the passes no library's dependencies
\* and no library's clients contains the library's own name.
C2_NoSelfLoop ==
    \A n \in DOMAIN libs :
        /\ libs[n].name \notin libs[n].dependencies
        /\ libs[n].name \notin libs[n].clients

\* A resolved registry holding a library whose undefined symbols are defined
\* by itself and by another record of the same name, with edges both ways.
C2_Witness ==
    /\ Resolved
    /\ \E m, n \in DOMAIN libs :
        /\ m # n
        /\ libs[m].name = libs[n].name
        /\ libs[n].undefined \cap libs[n].defined # {}
        /\ libs[n].undefined \cap libs[m].defined # {}
        /\ libs[n].dependencies # {}
        /\ libs[n].clients # {}

\* C3: once _init_dependencies has run, every library's dependencies is
\* exactly the set of names of the differently named libraries that define
\* one of its undefined symbols.
C3_DependenciesExact ==
    pc \in {"clients", "store", "done"} =>
        \A n \in DOMAIN libs :
            libs[n].dependencies = ExpectedDependencies(libs, n)

\* _init_dependencies has just returned, leaving one library with two
\* dependencies and another with none.
C3_Witness ==
    /\ pc = "clients"
    /\ \E m, n \in DOMAIN libs :
        /\ Cardinality(libs[n].dependencies) >= 2
        /\ libs[m].dependencies = {}

\* The libraries of ls that _find_dependencies_intersection counts for tgt.
ClientLibs(tgt, ls) == { n \in DOMAIN ls : ls[n].name \in tgt.clients }

\* The intersection of the dependencies of the clients of tgt, empty when
\* there is none.
CommonDependencies(tgt, ls) ==
    IF ClientLibs(tgt, ls) = {} THEN {}
    ELSE { d \in Bases : \A n \in ClientLibs(tgt, ls) : d \in ls[n].dependencies }

\* C4: for every target and registry, the set returned by
\* _find_dependencies_intersection is the intersection of the dependencies of
\* all the libraries named in target.clients, and the result is (0, {}) when
\* there is none.
C4_ExactIntersection ==
    pc = "found" =>
        /\ result[2] = CommonDependencies(target, libs)
        /\ ClientLibs(target, libs) = {} => result = <<0, {}>>

\* C5: running the two passes again on a resolved registry leaves every
\* dependencies and clients set as the first run left it.
C5_RerunIdempotent ==
    (pass > 1 /\ pc = "store") =>
        /\ DependenciesOf(libs) = DependenciesOf(snap)
        /\ ClientsOf(libs) = ClientsOf(snap)

\* The second run has finished on a registry that has edges.
C5_Witness ==
    /\ pass = 2
    /\ pc = "store"
    /\ \E m, n \in DOMAIN libs :
        /\ m # n
        /\ libs[m].dependencies # {}
        /\ libs[n].clients # {}

\* C6: a library whose symbol dump failed is never written to the store as an
\* ordinary record (the records carry no mark, so: is never written).
C6_NoFailedRecordStored ==
    data.written =>
        \A n \in DOMAIN data.libs : disk[paths[n]].ok

\* C7: the stored registry never holds two records with the same name.
C7_StoredNamesUnique ==
    data.written => UniqueNames(data.libs)

\* C8: an excluded base filename is never the name of a record and never a
\* member of a dependencies or clients set, in the registry and in the store.
C8_ExcludedAbsent ==
    /\ \A n \in DOMAIN libs :
        /\ libs[n].name \notin args_exclude_libs
        /\ libs[n].dependencies \cap args_exclude_libs = {}
        /\ libs[n].clients \cap args_exclude_libs = {}
    /\ \A n \in DOMAIN data.libs :
        /\ data.libs[n].name \notin args_exclude_libs
        /\ data.libs[n].dependencies \cap args_exclude_libs = {}
        /\ data.libs[n].clients \cap args_exclude_libs = {}

\* A finished build from which a named library was excluded, and whose
\* remaining libraries depend on each other.
C8_Witness ==
    /\ pc = "done"
    /\ \E q \in Range(args_libs) : basename(q) \in args_exclude_libs
    /\ \E n \in DOMAIN data.libs : data.libs[n].dependencies # {}
    /\ \E n \in DOMAIN data.libs : data.libs[n].clients # {}

\* Every path has been parsed into its record.
AllExtracted ==
    /\ pc \notin {"filter", "parse"}
    /\ SymbolsOf(libs) =
         [n \in DOMAIN paths |->
            <<basename(paths[n]), disk[paths[n]].defined, disk[paths[n]].undefined>>]

DependenciesComplete ==
    \A n \in DOMAIN libs : libs[n].dependencies = ExpectedDependencies(libs, n)

ClientsComplete ==
    \A n \in DOMAIN libs : libs[n].clients = ExpectedClients(libs, n)

\* The edges recorded in registry ls, each with the index of its record.
DependencyEdges(ls) ==
    UNION { { <<n, d>> : d \in ls[n].dependencies } : n \in DOMAIN ls }
ClientEdges(ls) ==
    UNION { { <<n, c>> : c \in ls[n].clients } : n \in DOMAIN ls }

\* What one step of a --make-db run may do.
C9_Step ==
    /\ DependencyEdges(libs') # DependencyEdges(libs) =>
          AllExtracted /\ ClientEdges(libs') = ClientEdges(libs)
    /\ ClientEdges(libs') # ClientEdges(libs) =>
          /\ AllExtracted
          /\ DependenciesComplete
          /\ DependencyEdges(libs') = DependencyEdges(libs)
    /\ (data' # data \/ writes' # writes) =>
          /\ writes = 0
          /\ writes' = 1
          /\ AllExtracted
          /\ DependenciesComplete
          /\ ClientsComplete
          /\ data' = [written |-> TRUE, libs |-> libs]
    /\ pc \notin {"filter", "parse"} => SymbolsOf(libs') = SymbolsOf(libs)

\* C9: in a --make-db run all libraries are extracted before any dependency
\* edge is added, all dependencies are complete before any client edge is
\* added, the store is written once and only after both passes, and no symbol
\* set changes once the first pass has started.
C9_Order == [][C9_Step]_vars

\* A finished run that added edges of both kinds and wrote the store.
C9_Witness ==
    /\ pc = "done"
    /\ writes = 1
    /\ Len(data.libs) = MaxLibs
    /\ \E n \in DOMAIN data.libs : data.libs[n].dependencies # {}
    /\ \E n \in DOMAIN data.libs : data.libs[n].clients # {}

\* What holds while and after _find_dependencies_intersection runs on a
\* resolved registry with unique names.
C10_State ==
    (UniqueNames(libs) /\ pc \in {"find", "found"}) =>
        /\ clients_count > 0 => target.name \in deps_intersection
        /\ (pc = "found" /\ target.clients # {}) =>
              /\ target.name \in result[2]
              /\ result[1] = Cardinality(target.clients)

\* C10: on a resolved registry with unique names, for a target with a client
\* the set returned by _find_dependencies_intersection contains target.name
\* (and the running intersection is never empty), the count returned is the
\* size of target.clients, and the call changes no dependencies or clients set.
C10_ResolvedIntersection ==
    /\ [] C10_State
    /\ [][pc = "find" =>
            /\ DependenciesOf(libs') = DependenciesOf(libs)
            /\ ClientsOf(libs') = ClientsOf(libs)]_vars

\* The call has returned for a target with two clients in a registry with
\* unique names.
C10_Witness ==
    /\ pc = "found"
    /\ UniqueNames(libs)
    /\ Cardinality(target.clients) = 2
    /\ result[1] = 2
====
